---- MODULE Spec2Model ----
(***************************************************************************)
(* Verlet-Integration-Physics (src/src/main.rs): the particle world, its   *)
(* four constraint passes, the integrator, Master::update and the driver   *)
(* loop of main.                                                           *)
(*                                                                         *)
(* Numbers.  The program computes in f32.  Here every f32 scalar is an     *)
(* integer counting units of 1/Scale (1.0 is Scale), a Vec2 is a pair      *)
(* <<x, y>> of such integers.  An f32 has a significand of 24 bits and so  *)
(* a resolution that halves at every power of two; the model keeps that    *)
(* for the magnitudes the positions of the program have: a value holds     *)
(* Precision significant bits, so that below 512.0 the resolution is one   *)
(* unit, from 512.0 on two units, from 1024.0 on four.  Every operation    *)
(* (sum, difference, product, quotient, square root) returns the           *)
(* representable value nearest to its exact result, halves to the even     *)
(* neighbour, as the f32 operation does.                                   *)
(* The quotient  axis / distance  (a unit vector, whose components lie in  *)
(* [-1, 1] where an f32 resolves far finer than it does near 500.0) is     *)
(* kept in units of 1/UnitScale.  Coincident centres (distance 0.0, where  *)
(* the f32 quotient is NaN) are not among the modelled inputs: the         *)
(* division operators are applied to non-zero divisors only.               *)
(***************************************************************************)
EXTENDS Integers, Sequences, FiniteSets, TLC

(* ------------------------------ bounds -------------------------------- *)

\* Frames of the driver loop that are explored.
MaxFrames == 3

\* Passes applied in a row to a test world by the pass-level specification.
MaxPasses == 2

(* ------------------------------ arithmetic --------------------------- *)

Scale == 2^6

UnitScale == 2^14

\* The significant bits of a value: 2^Precision units are 512.0.
Precision == 9 + 6

\* The f32 literal n.0
F(n) == n * Scale

Abs(x) == IF x < 0 THEN -x ELSE x

\* a / b rounded to the nearest integer, halves to the even one (b # 0).
RDiv(a, b) ==
    LET n == Abs(a)
        d == Abs(b)
        q == n \div d
        r == n - q * d
        m == IF 2 * r > d \/ (2 * r = d /\ q % 2 = 1) THEN q + 1 ELSE q
    IN  IF (a < 0) = (b < 0) THEN m ELSE -m

RECURSIVE Quantum(_, _)
\* The resolution at magnitude m: the least q, a power of two from q on,
\* with m < 2^Precision * q.
Quantum(m, q) == IF m < (2^Precision) * q THEN q ELSE Quantum(m, 2 * q)

\* The representable value nearest to x.
Round(x) ==
    LET q == Quantum(Abs(x), 1)
    IN  IF q = 1 THEN x ELSE q * RDiv(x, q)

\* f32 + f32
FAdd(a, b) == Round(a + b)

\* f32 - f32
FSub(a, b) == Round(a - b)

\* f32 * f32
FMul(a, b) == Round(RDiv(a * b, Scale))

\* f32 / f32
FDiv(a, b) == Round(RDiv(a * Scale, b))

RECURSIVE SqrtIter(_, _)
\* Newton's iteration from above: the floor of the square root of n.
SqrtIter(n, x) ==
    LET y == (x + n \div x) \div 2
    IN  IF y >= x THEN x ELSE SqrtIter(n, y)

FloorSqrt(n) == IF n = 0 THEN 0 ELSE SqrtIter(n, n)

\* f32::sqrt: the square root of n rounded to the nearest value.
Sqrt(n) ==
    LET r == FloorSqrt(n)
    IN  Round(IF n - r * r > r THEN r + 1 ELSE r)

(* -------------------------------- Vec2 --------------------------------- *)

VZero == <<0, 0>>

\* Vec2 + Vec2
VAdd(u, v) == <<FAdd(u[1], v[1]), FAdd(u[2], v[2])>>

\* Vec2 - Vec2
VSub(u, v) == <<FSub(u[1], v[1]), FSub(u[2], v[2])>>

\* Vec2 * f32
VScale(v, k) == <<FMul(v[1], k), FMul(v[2], k)>>

\* Vec2::length
Length(v) == Sqrt(v[1] * v[1] + v[2] * v[2])

\* Vec2 / f32 for a vector and its own length: the unit vector, in units of
\* 1/UnitScale.
Normal(v, distance) ==
    <<RDiv(v[1] * UnitScale, distance), RDiv(v[2] * UnitScale, distance)>>

\* f32 * unit vector, back in units of 1/Scale.
Along(k, n) ==
    <<Round(RDiv(k * n[1], UnitScale)), Round(RDiv(k * n[2], UnitScale))>>

\* 0.5 * f32 * unit vector (the product with 0.5 is exact in f32).
HalfAlong(k, n) ==
    <<Round(RDiv(k * n[1], 2 * UnitScale)), Round(RDiv(k * n[2], 2 * UnitScale))>>

(* ------------------------------ constants ------------------------------ *)

WINDOW_WIDTH == 960

WINDOW_HEIGHT == 600

CONSTRAINT_RADIUS == 300

GRAVITY == 1

PHYSICS_SUBSTEPS == 4

\* The index of the second anchor particle, objects[14].
ANCHOR_INDEX == 14

\* The radius generate_objects gives the chain particles.
CHAIN_RADIUS == 10

\* The radius update gives the anchors it rebuilds.
ANCHOR_RADIUS == 10

\* The spacing of the chain particles in generate_objects.
CHAIN_SPACING == 30

\* target_distance of every chain link.
LINK_DISTANCE == 30

\* mouse_timer after a spawn.
SPAWN_COOLDOWN == 10

Center == <<F(WINDOW_WIDTH) \div 2, F(WINDOW_HEIGHT) \div 2>>

LeftAnchor == <<F(WINDOW_WIDTH) \div 2 - F(210), F(WINDOW_HEIGHT) \div 2 + F(100)>>

RightAnchor == <<F(WINDOW_WIDTH) \div 2 + F(210), F(WINDOW_HEIGHT) \div 2 + F(100)>>

SpawnPosition == <<F(WINDOW_WIDTH) \div 2 + F(180), F(WINDOW_HEIGHT) \div 2>>

(* ---------------------------- VerletObject ----------------------------- *)

\* VerletObject::new; the random colour it draws is the argument color.
New(position, radius, color) ==
    [position |-> position, last_position |-> position,
     acceleration |-> VZero, radius |-> radius, color |-> color]

\* update_position with the acceleration multiplied by delta once.
UpdatePositionOneDelta(object, delta) ==
    LET velocity == VSub(object.position, object.last_position)
    IN  [object EXCEPT
            !.last_position = object.position,
            !.position = VAdd(object.position,
                              VAdd(velocity, VScale(object.acceleration, delta))),
            !.acceleration = VZero]

\* VerletObject::update_position
UpdatePosition(object, delta) ==
    LET velocity == VSub(object.position, object.last_position)
    IN  [object EXCEPT
            !.last_position = object.position,
            !.position = VAdd(object.position,
                              VAdd(velocity,
                                   VScale(VScale(object.acceleration, delta), delta))),
            !.acceleration = VZero]

\* VerletObject::accelerate
Accelerate(object, acc) ==
    [object EXCEPT !.acceleration = VAdd(object.acceleration, acc)]

(* -------------------------------- Master ------------------------------- *)

\* Master::apply_gravity
ApplyGravity(objs) ==
    [i \in 1..Len(objs) |-> Accelerate(objs[i], <<0, F(GRAVITY)>>)]

\* apply_constraint clamping the centre to the boundary circle itself.
ConstrainToCircle(object) ==
    LET radius    == F(CONSTRAINT_RADIUS)
        to_object == VSub(object.position, Center)
        distance  == Length(to_object)
    IN  IF distance > FSub(radius, object.radius)
        THEN LET n == Normal(to_object, distance)
             IN  [object EXCEPT !.position = VAdd(Center, Along(radius, n))]
        ELSE object

\* The body of the loop of Master::apply_constraint for one object.
Constrain(object) ==
    LET radius    == F(CONSTRAINT_RADIUS)
        to_object == VSub(object.position, Center)
        distance  == Length(to_object)
    IN  IF distance > FSub(radius, object.radius)
        THEN LET n == Normal(to_object, distance)
             IN  [object EXCEPT
                     !.position = VAdd(Center, Along(FSub(radius, object.radius), n))]
        ELSE object

\* Master::apply_constraint
ApplyConstraint(objs) == [i \in 1..Len(objs) |-> Constrain(objs[i])]

\* The test  distance < object_distance  of solve_collisions for the ordered
\* pair (i, j) of 0-based indices.
Overlap(objs, i, j) ==
    Length(VSub(objs[i + 1].position, objs[j + 1].position))
        < FAdd(objs[i + 1].radius, objs[j + 1].radius)

\* solve_collisions with the collision axis taken from i to j.
CollideVisitInward(objs, i, j) ==
    IF i = j
    THEN objs
    ELSE LET collision_axis  == VSub(objs[j + 1].position, objs[i + 1].position)
             distance        == Length(collision_axis)
             object_distance == FAdd(objs[i + 1].radius, objs[j + 1].radius)
         IN  IF distance < object_distance
             THEN LET n     == Normal(collision_axis, distance)
                      delta == FSub(object_distance, distance)
                      push  == HalfAlong(delta, n)
                  IN  [objs EXCEPT
                          ![i + 1].position = VAdd(objs[i + 1].position, push),
                          ![j + 1].position = VSub(objs[j + 1].position, push)]
             ELSE objs

\* solve_collisions moving each of the two by the whole overlap.
CollideVisitWhole(objs, i, j) ==
    IF i = j
    THEN objs
    ELSE LET collision_axis  == VSub(objs[i + 1].position, objs[j + 1].position)
             distance        == Length(collision_axis)
             object_distance == FAdd(objs[i + 1].radius, objs[j + 1].radius)
         IN  IF distance < object_distance
             THEN LET n     == Normal(collision_axis, distance)
                      delta == FSub(object_distance, distance)
                      push  == Along(delta, n)
                  IN  [objs EXCEPT
                          ![i + 1].position = VAdd(objs[i + 1].position, push),
                          ![j + 1].position = VSub(objs[j + 1].position, push)]
             ELSE objs

\* The body of the inner loop of solve_collisions for the ordered pair (i, j).
CollideVisit(objs, i, j) ==
    IF i = j
    THEN objs
    ELSE LET collision_axis  == VSub(objs[i + 1].position, objs[j + 1].position)
             distance        == Length(collision_axis)
             object_distance == FAdd(objs[i + 1].radius, objs[j + 1].radius)
         IN  IF distance < object_distance
             THEN LET n     == Normal(collision_axis, distance)
                      delta == FSub(object_distance, distance)
                      push  == HalfAlong(delta, n)
                  IN  [objs EXCEPT
                          ![i + 1].position = VAdd(objs[i + 1].position, push),
                          ![j + 1].position = VSub(objs[j + 1].position, push)]
             ELSE objs

RECURSIVE CollideInner(_, _, _)
\* The inner loop of solve_collisions for i, from j on.
CollideInner(objs, i, j) ==
    IF j >= Len(objs)
    THEN objs
    ELSE CollideInner(CollideVisit(objs, i, j), i, j + 1)

RECURSIVE CollideOuter(_, _)
\* The outer loop of solve_collisions from i on.
CollideOuter(objs, i) ==
    IF i >= Len(objs)
    THEN objs
    ELSE CollideOuter(CollideInner(objs, i, 0), i + 1)

\* Master::solve_collisions
SolveCollisions(objs) == CollideOuter(objs, 0)

\* The body of the loop of apply_chain_links for one link.
ApplyLink(objs, chain_link) ==
    LET a        == chain_link.a + 1
        b        == chain_link.b + 1
        axis     == VSub(objs[a].position, objs[b].position)
        distance == Length(axis)
        n        == Normal(axis, distance)
        delta    == FSub(chain_link.target_distance, distance)
        push     == HalfAlong(delta, n)
    IN  [objs EXCEPT
            ![a].position = VAdd(objs[a].position, push),
            ![b].position = VSub(objs[b].position, push)]

RECURSIVE LinksFrom(_, _, _)
LinksFrom(objs, links, k) ==
    IF k > Len(links)
    THEN objs
    ELSE LinksFrom(ApplyLink(objs, links[k]), links, k + 1)

\* Master::apply_chain_links
ApplyChainLinks(objs, links) == LinksFrom(objs, links, 1)

\* Master::update_positions
UpdatePositions(objs, delta) ==
    [i \in 1..Len(objs) |-> UpdatePosition(objs[i], delta)]

\* The anchor reset moving the object to the anchor and no more.
ResetAnchorPositionOnly(objs, index, anchor) ==
    [objs EXCEPT ![index + 1].position = anchor]

\* The anchor reset without the assignment of old_color.
ResetAnchorNewColor(objs, index, anchor) ==
    [objs EXCEPT
        ![index + 1] = New(anchor, F(ANCHOR_RADIUS), 1 - objs[index + 1].color)]

\* The anchor reset of Master::update for objects[index]: a new object at the
\* anchor with the literal radius 10.0, given the old colour.
ResetAnchor(objs, index, anchor) ==
    LET old_color == objs[index + 1].color
    IN  [objs EXCEPT ![index + 1] = New(anchor, F(ANCHOR_RADIUS), old_color)]

\* Both anchor resets of Master::update.
ResetAnchors(objs) ==
    ResetAnchor(ResetAnchor(objs, 0, LeftAnchor), ANCHOR_INDEX, RightAnchor)

(* ------------------------------ the world ------------------------------ *)

\* The colours VerletObject::new may draw.
Colors == {0, 1}

\* generate_objects, the colour of particle i drawn as colors[i].
GenerateObjects(colors) ==
    [k \in 1..15 |->
        New(<<F(WINDOW_WIDTH) \div 2 - F(210) + (k - 1) * F(CHAIN_SPACING),
              F(WINDOW_HEIGHT) \div 2 + F(100)>>,
            F(CHAIN_RADIUS), colors[k])]

\* generate_chain_links with a link too many.
GenerateChainLinksLong ==
    [k \in 1..15 |-> [a |-> k - 1, b |-> k, target_distance |-> F(LINK_DISTANCE)]]

\* generate_chain_links
GenerateChainLinks ==
    [k \in 1..14 |-> [a |-> k - 1, b |-> k, target_distance |-> F(LINK_DISTANCE)]]

(* ------------------------------- state --------------------------------- *)

VARIABLES
    objects,        \* Master::objects
    chain_links,    \* Master::chain_links
    mouse_timer,    \* main's mouse_timer
    pc,             \* the statement the program is at
    substep,        \* substeps of the current Master::update that are complete
    delta,          \* the argument of the current Master::update
    sub_delta,      \* sub_delta of the current Master::update
    frames,         \* iterations of main's loop that were started
    held,           \* is_mouse_button_down in the last frame started
    pushed,         \* history: objects pushed by the last frame started
    passes,         \* history: the passes the current update has run, in order
    created,        \* history: the radius each particle was created with
    disturbed,      \* history: an anchor was off its place when last reset
    since_spawn,    \* history: frame time accumulated since the last spawn
    held_through,   \* history: the button was down in every frame since then
    last_gap,       \* history: frame time between the last two spawns
    last_gap_held,  \* history: the button was down throughout that time
    before          \* history: the objects before the last step

vars == <<objects, chain_links, mouse_timer, pc, substep, delta, sub_delta,
          frames, held, pushed, passes, created, disturbed, since_spawn, held_through,
          last_gap, last_gap_held, before>>

spawn_history == <<since_spawn, held_through, last_gap, last_gap_held>>

\* No value yet (a history variable before the event it records).
None == 0 - 1

(* ------------------------------- inputs -------------------------------- *)

\* delta_time(): get_frame_time() * 60.0, for frames of 1/30 s and 2/15 s.
DeltaTimes == {F(2), F(8)}

\* gen_range(10.0, 40.0)
SpawnRadii == {F(10), F(25)}

(* ------------------------------- main ---------------------------------- *)

\* The state main builds before its loop.
InitMain(colors) ==
    /\ objects = GenerateObjects(colors)
    /\ chain_links = GenerateChainLinks
    /\ mouse_timer = 0

InitHistory ==
    /\ pc = "loop"
    /\ substep = 0
    /\ delta = 0
    /\ sub_delta = 0
    /\ frames = 0
    /\ held = FALSE
    /\ pushed = 0
    /\ passes = <<>>
    /\ created = [k \in 1..Len(objects) |->
                     [radius |-> objects[k].radius, color |-> objects[k].color]]
    /\ disturbed = FALSE
    /\ since_spawn = None
    /\ held_through = FALSE
    /\ last_gap = None
    /\ last_gap_held = FALSE
    /\ before = objects

\* The colours are for drawing alone; main's world is taken with one
\* drawing of them.
Init ==
    /\ InitMain([k \in 1..15 |-> k % 2])
    /\ InitHistory

\* The spawn branch inserting the object in front.
SpawnInFront(objs, radius, color) == <<New(SpawnPosition, radius, color)>> \o objs

\* The spawn branch of main's loop: the object pushed.
Spawn(objs, radius, color) == Append(objs, New(SpawnPosition, radius, color))

\* The mouse branch without  mouse_timer = 10.0.
TimerAfterNoCooldown(timer, down, dt) == IF down THEN FSub(timer, dt) ELSE 0

\* mouse_timer after the mouse branch of one iteration of main's loop.
TimerAfter(timer, down, dt) ==
    IF down
    THEN IF FSub(timer, dt) <= 0 THEN F(SPAWN_COOLDOWN) ELSE FSub(timer, dt)
    ELSE 0

\* Whether the mouse branch of one iteration of main's loop pushes an object.
Spawns(timer, down, dt) == down /\ FSub(timer, dt) <= 0

\* sub_delta of Master::update
SubDelta(dt) == FDiv(dt, F(PHYSICS_SUBSTEPS))

\* One iteration of main's loop up to the entry of Master::update: the mouse
\* branch, then the call of update with the frame's delta_time().
Frame(down, dt, radius, color) ==
    /\ pc = "loop"
    /\ frames < MaxFrames
    /\ mouse_timer' = TimerAfter(mouse_timer, down, dt)
    /\ IF Spawns(mouse_timer, down, dt)
       THEN /\ objects' = Spawn(objects, radius, color)
            /\ created' = Append(created, [radius |-> radius, color |-> color])
            /\ since_spawn' = 0
            /\ held_through' = TRUE
            /\ last_gap' = IF since_spawn = None THEN None ELSE since_spawn + dt
            /\ last_gap_held' = held_through
       ELSE /\ objects' = objects
            /\ created' = created
            /\ since_spawn' = IF since_spawn = None THEN None ELSE since_spawn + dt
            /\ held_through' = (held_through /\ down)
            /\ UNCHANGED <<last_gap, last_gap_held>>
    /\ held' = down
    /\ pushed' = Len(objects') - Len(objects)
    /\ frames' = frames + 1
    /\ delta' = dt
    /\ sub_delta' = SubDelta(dt)
    /\ substep' = 0
    /\ passes' = <<>>
    /\ pc' = "apply_gravity"
    /\ before' = objects
    /\ UNCHANGED <<chain_links, disturbed>>

NextFrame ==
    \E down \in BOOLEAN, dt \in DeltaTimes, radius \in SpawnRadii, color \in Colors :
        Frame(down, dt, radius, color)

\* update applying the chain links before it solves the collisions.
AfterLinksFirst(p) ==
    CASE p = "apply_gravity"     -> "apply_constraint"
      [] p = "apply_constraint"  -> "apply_chain_links"
      [] p = "apply_chain_links" -> "solve_collisions"
      [] p = "solve_collisions"  -> "reset_anchors"
      [] p = "reset_anchors"     -> "update_positions"

\* The statement of a substep of Master::update that follows statement p.
After(p) ==
    CASE p = "apply_gravity"     -> "apply_constraint"
      [] p = "apply_constraint"  -> "solve_collisions"
      [] p = "solve_collisions"  -> "apply_chain_links"
      [] p = "apply_chain_links" -> "reset_anchors"
      [] p = "reset_anchors"     -> "update_positions"

\* What every pass of a substep leaves alone.
PassFrame(p) ==
    /\ passes' = Append(passes, p)
    /\ before' = objects
    /\ UNCHANGED <<chain_links, mouse_timer, delta, sub_delta, frames, held,
                   pushed, created, spawn_history>>

Gravity ==
    /\ pc = "apply_gravity"
    /\ objects' = ApplyGravity(objects)
    /\ pc' = After(pc)
    /\ PassFrame(pc)
    /\ UNCHANGED <<substep, disturbed>>

Constraint ==
    /\ pc = "apply_constraint"
    /\ objects' = ApplyConstraint(objects)
    /\ pc' = After(pc)
    /\ PassFrame(pc)
    /\ UNCHANGED <<substep, disturbed>>

Collisions ==
    /\ pc = "solve_collisions"
    /\ objects' = SolveCollisions(objects)
    /\ pc' = After(pc)
    /\ PassFrame(pc)
    /\ UNCHANGED <<substep, disturbed>>

ChainLinks ==
    /\ pc = "apply_chain_links"
    /\ objects' = ApplyChainLinks(objects, chain_links)
    /\ pc' = After(pc)
    /\ PassFrame(pc)
    /\ UNCHANGED <<substep, disturbed>>

Anchors ==
    /\ pc = "reset_anchors"
    /\ objects' = ResetAnchors(objects)
    /\ disturbed' = (\/ objects[1].position # LeftAnchor
                     \/ objects[ANCHOR_INDEX + 1].position # RightAnchor)
    /\ pc' = After(pc)
    /\ PassFrame(pc)
    /\ UNCHANGED substep

\* update_positions ends the substep; after PHYSICS_SUBSTEPS of them update
\* returns and main goes on to draw and to the next iteration of its loop.
Integrate ==
    /\ pc = "update_positions"
    /\ objects' = UpdatePositions(objects, sub_delta)
    /\ substep' = substep + 1
    /\ pc' = IF substep + 1 >= PHYSICS_SUBSTEPS THEN "loop" ELSE "apply_gravity"
    /\ PassFrame(pc)
    /\ UNCHANGED disturbed

Update == Gravity \/ Constraint \/ Collisions \/ ChainLinks \/ Anchors \/ Integrate

Next == NextFrame \/ Update

Spec == Init /\ [][Next]_vars

(* --------------------- update on any world of 15 ----------------------- *)

\* Worlds of at least 15 particles other than the one main builds: the
\* chain with its two end particles given the radii r0 and r14 and moved off
\* the anchors by the offset (their last positions staying behind), and, if
\* extra, a sixteenth particle above the centre.
World(r0, r14, offset, extra) ==
    LET chain == GenerateObjects([k \in 1..15 |-> k % 2])
        moved == [chain EXCEPT
                     ![1].radius = r0,
                     ![1].position = VAdd(chain[1].position, offset),
                     ![ANCHOR_INDEX + 1].radius = r14,
                     ![ANCHOR_INDEX + 1].position =
                         VSub(chain[ANCHOR_INDEX + 1].position, offset)]
    IN  IF extra
        THEN Append(moved, New(VSub(Center, <<0, F(100)>>), F(25), 0))
        ELSE moved

InitWorld ==
    /\ objects \in {World(F(20), F(10), <<F(3), 0 - F(4)>>, FALSE),
                    World(F(10), F(25), <<0, F(6)>>, TRUE)}
    /\ chain_links = GenerateChainLinks
    /\ mouse_timer = 0
    /\ InitHistory

SpecWorld == InitWorld /\ [][Next]_vars

(* ---------------------- the passes on test worlds ---------------------- *)

\* Places of test particles, as offsets from the centre of the window: three
\* on a line within reach of each other, one off that line, two that lie
\* beyond the boundary circle (the last one only with a large radius).
TestOffsets == {<<0, 0>>, <<19, 0>>, <<-5, 0>>, <<7, 11>>, <<200, 250>>, <<0, -280>>}

TestPoints == {VAdd(Center, <<F(o[1]), F(o[2])>>) : o \in TestOffsets}

TestRadii == {F(10), F(40)}

\* position - last_position of the test particles.
TestVelocities == {<<0, 0>>, <<F(3), 0 - F(2)>>}

\* acceleration of the test particles: none, or one apply_gravity.
TestAccelerations == {<<0, 0>>, <<0, F(GRAVITY)>>}

\* The substep deltas of the frames of DeltaTimes, and 1.0.
TestDeltas == {SubDelta(dt) : dt \in DeltaTimes} \cup {F(1)}

TestObject(position, radius, velocity, acceleration) ==
    [New(position, radius, 0) EXCEPT
        !.last_position = VSub(position, velocity),
        !.acceleration = acceleration]

\* Worlds of one to most particles at distinct places.
TestWorlds(velocity, acceleration, most) ==
    LET particles == {TestObject(p, r, velocity, acceleration) :
                        p \in TestPoints, r \in TestRadii}
        distinct(w) == \A k, l \in 1..Len(w) :
                          k # l => w[k].position # w[l].position
    IN  {w \in UNION {[1..n -> particles] : n \in 1..most} : distinct(w)}

\* Offsets from the centre, per coordinate, of particles placed alone on and
\* around the boundary circle, to within one unit, and just short of the
\* coordinate 512.0 where the resolution changes.
BoundaryCoordinates ==
    {0 - F(290) - 1, 0 - F(205), 0, F(31) + 33, F(205), F(211) + 33, F(260) + 2,
     F(290), F(290) + 2, F(300)}

\* Worlds of one particle near the boundary.
BoundaryWorlds(velocity, acceleration) ==
    {<<TestObject(VAdd(Center, <<x, y>>), r, velocity, acceleration)>> :
        x \in BoundaryCoordinates, y \in BoundaryCoordinates, r \in TestRadii}

\* One chain link between the first two particles of a test world.
TestLinks(n) ==
    IF n >= 2
    THEN <<[a |-> 0, b |-> 1, target_distance |-> F(LINK_DISTANCE)] >>
    ELSE <<>>

\* The worlds of up to three particles at rest with no acceleration, those
\* of up to two moving with one apply_gravity accumulated, and the worlds of
\* one particle near the boundary with every velocity and acceleration.
InitPass ==
    /\ \/ objects \in TestWorlds(VZero, VZero, 3)
       \/ \E v \in TestVelocities \ {VZero}, a \in TestAccelerations \ {VZero} :
             objects \in TestWorlds(v, a, 2)
       \/ \E v \in TestVelocities, a \in TestAccelerations :
             objects \in BoundaryWorlds(v, a)
    /\ chain_links = TestLinks(Len(objects))
    /\ mouse_timer = 0
    /\ InitHistory

\* What a pass applied to a test world leaves alone.
TestFrame(p) ==
    /\ pc = "loop"
    /\ Len(passes) < MaxPasses
    /\ passes' = Append(passes, p)
    /\ before' = objects
    /\ UNCHANGED <<chain_links, mouse_timer, pc, substep, delta, frames, held,
                   pushed, created, disturbed, spawn_history>>

TestGravity ==
    /\ TestFrame("apply_gravity")
    /\ objects' = ApplyGravity(objects)
    /\ UNCHANGED sub_delta

TestConstraint ==
    /\ TestFrame("apply_constraint")
    /\ objects' = ApplyConstraint(objects)
    /\ UNCHANGED sub_delta

TestCollisions ==
    /\ TestFrame("solve_collisions")
    /\ objects' = SolveCollisions(objects)
    /\ UNCHANGED sub_delta

TestChainLinks ==
    /\ TestFrame("apply_chain_links")
    /\ objects' = ApplyChainLinks(objects, chain_links)
    /\ UNCHANGED sub_delta

TestIntegrate ==
    /\ TestFrame("update_positions")
    /\ \E dt \in TestDeltas :
          /\ sub_delta' = dt
          /\ objects' = UpdatePositions(objects, dt)

NextPass ==
    \/ TestGravity
    \/ TestConstraint
    \/ TestCollisions
    \/ TestChainLinks
    \/ TestIntegrate

SpecPass == InitPass /\ [][NextPass]_vars

\* The pass a test world went through last.
LastPass == IF passes = <<>> THEN "none" ELSE passes[Len(passes)]

(* ----------------------- measures for the claims ----------------------- *)

\* 1/16 of a world unit, twice the resolution of a position beyond 512.0:
\* the tolerance granted where a claim compares rounded distances.
Tolerance == Scale \div 16

Dot(u, v) == u[1] * v[1] + u[2] * v[2]

Cross(u, v) == u[1] * v[2] - u[2] * v[1]

\* u - v in the integers.
Diff(u, v) == <<u[1] - v[1], u[2] - v[2]>>

\* The square of the distance of the centres of particles i and j (0-based).
DistSq(objs, i, j) ==
    LET d == Diff(objs[i + 1].position, objs[j + 1].position) IN Dot(d, d)

RECURSIVE StateBefore(_, _)
\* The objects as visit number k of solve_collisions finds them; visit k is
\* the ordered pair (k div n, k mod n) of a world of n particles.
StateBefore(objs, k) ==
    IF k = 0
    THEN objs
    ELSE CollideVisit(StateBefore(objs, k - 1),
                      (k - 1) \div Len(objs), (k - 1) % Len(objs))

\* The number of the visit of the ordered pair (i, j).
VisitOf(objs, i, j) == i * Len(objs) + j

\* The visit of (i, j) takes the overlap branch of solve_collisions(objs).
Corrected(objs, i, j) == Overlap(StateBefore(objs, VisitOf(objs, i, j)), i, j)

Indices(objs) == 0..(Len(objs) - 1)

(* ------------------------------ C3 ------------------------------------- *)

\* What update_position does to the fields other than position: the old
\* position becomes the last one, the acceleration is cleared.
Stepped(k) ==
    /\ objects[k].last_position = before[k].position
    /\ objects[k].acceleration = VZero

\* Coordinate c of the new position of particle k less the value of
\* p + (p - q) in the integers, in units.
Excess(k, c) ==
    objects[k].position[c]
        - (2 * before[k].position[c] - before[k].last_position[c])

\* The resolution of values at coordinate c of the new position of k.
Resolution(k, c) == Quantum(Abs(objects[k].position[c]), 1)

\* Particle k was at rest with one apply_gravity accumulated and was
\* integrated over dt = 1.0.
AtRestUnderGravity(k) ==
    /\ before[k].last_position = before[k].position
    /\ sub_delta = F(1)
    /\ before[k].acceleration = ApplyGravity(<<New(VZero, 0, 0)>>)[1].acceleration

CenterDistSq(position) == LET d == Diff(position, Center) IN Dot(d, d)

\* C4 (boundary containment).  After apply_constraint every particle is
\* within CONSTRAINT_RADIUS - radius of the centre, up to Tolerance; one that
\* was within that bound before is where it was; one that was beyond it lies
\* on the circle of that radius (up to Tolerance) in its old direction from
\* the centre (the new offset is not turned against the old one by more than
\* Tolerance across).
C4_Containment ==
    LastPass = "apply_constraint" =>
        \A k \in 1..Len(objects) :
            LET bound == F(CONSTRAINT_RADIUS) - objects[k].radius
                old   == Diff(before[k].position, Center)
                new   == Diff(objects[k].position, Center)
            IN  /\ CenterDistSq(objects[k].position)
                      <= (bound + Tolerance) * (bound + Tolerance)
                /\ Dot(old, old) <= bound * bound
                      => objects[k].position = before[k].position
                /\ Dot(old, old) > bound * bound
                      => /\ Dot(new, new) >= (bound - Tolerance) * (bound - Tolerance)
                         /\ Dot(old, new) > 0
                         /\ Abs(Cross(old, new)) <= Tolerance * Length(old)

\* apply_constraint moved a particle that was beyond the bound, and left
\* alone one that was within it.
C4_Witness ==
    /\ LastPass = "apply_constraint"
    /\ \E k \in 1..Len(objects) :
          /\ CenterDistSq(before[k].position)
                > (F(CONSTRAINT_RADIUS) - before[k].radius)
                    * (F(CONSTRAINT_RADIUS) - before[k].radius)
          /\ objects[k].position # before[k].position
          /\ before[k].position[1] # Center[1]
    /\ \E k \in 1..Len(objects) :
          /\ before[k].position # Center
          /\ objects[k].position = before[k].position

(* ------------------------------ C5 ------------------------------------- *)

\* Some visit of solve_collisions(objs) that pairs i or j with a third
\* particle takes the overlap branch.
ThirdParty(objs, i, j) ==
    \E m \in {i, j}, t \in Indices(objs) \ {i, j} :
        Corrected(objs, m, t) \/ Corrected(objs, t, m)

\* C5 as claimed: every pair that overlaps (at a non-zero distance) before
\* solve_collisions is at least as far apart after the complete call.
C5_Original ==
    LastPass = "solve_collisions" =>
        \A i, j \in Indices(objects) :
            (i # j /\ DistSq(before, i, j) # 0 /\ Overlap(before, i, j))
                => DistSq(objects, i, j) >= DistSq(before, i, j)

\* C5 (amended).  No single correction of a pair brings that pair closer,
\* so a pair that overlaps before solve_collisions is at least as far apart
\* after the complete call whenever no third particle is corrected against
\* either of the two during the call, as in a world of two particles.
C5_Separation ==
    LastPass = "solve_collisions" =>
        /\ \A i, j \in Indices(objects) :
              (/\ i # j
               /\ DistSq(before, i, j) # 0
               /\ Overlap(before, i, j)
               /\ ~ThirdParty(before, i, j))
                  => DistSq(objects, i, j) >= DistSq(before, i, j)
        /\ \A i, j \in Indices(objects) :
              i # j =>
                  DistSq(StateBefore(before, VisitOf(before, i, j) + 1), i, j)
                      >= DistSq(StateBefore(before, VisitOf(before, i, j)), i, j)

\* solve_collisions pushed apart a pair that overlapped in a world of three
\* particles, the third of which took no part.
C5_Witness ==
    /\ LastPass = "solve_collisions"
    /\ Len(objects) = 3
    /\ \E i, j \in Indices(objects) :
          /\ i # j
          /\ Overlap(before, i, j)
          /\ ~ThirdParty(before, i, j)
          /\ DistSq(objects, i, j) > DistSq(before, i, j)

(* ------------------------------ C8 ------------------------------------- *)

\* C8 as claimed: a pair that overlaps when solve_collisions starts takes
\* the overlap branch on its (i, j) visit and again on its (j, i) visit.
C8_Original ==
    LastPass = "solve_collisions" =>
        \A i, j \in Indices(objects) :
            (i # j /\ DistSq(before, i, j) # 0 /\ Overlap(before, i, j))
                => Corrected(before, i, j) /\ Corrected(before, j, i)

\* C8 (amended).  Both ordered pairs are visited, the second visit on the
\* positions the first one left, but a visit takes the overlap branch only
\* if the pair then overlaps: two particles alone that overlap at the start
\* are corrected by the (0, 1) visit, and the (1, 0) visit changes nothing
\* unless they are then still short of the sum of their radii; either way
\* they end that sum apart, up to Tolerance and the rounding of the distance
\* measured at the start (a relative error of half a unit in that distance).
C8_Visits ==
    (LastPass = "solve_collisions" /\ Len(objects) = 2 /\ Overlap(before, 0, 1)) =>
        LET first == CollideVisit(before, 0, 1)
            sum   == before[1].radius + before[2].radius
            start == Length(Diff(before[1].position, before[2].position))
            near(objs) ==
                Abs(Length(Diff(objs[1].position, objs[2].position)) - sum) * start
                    <= sum + Tolerance * start
        IN  /\ Corrected(before, 0, 1)
            /\ near(first)
            /\ ~Overlap(first, 1, 0) => objects = first
            /\ near(objects)

\* Two particles alone overlapped, the first visit corrected them and the
\* second found nothing left to correct.
C8_Witness ==
    /\ LastPass = "solve_collisions"
    /\ Len(objects) = 2
    /\ Overlap(before, 0, 1)
    /\ ~Corrected(before, 1, 0)
    /\ objects # before

(* ------------------------------ C1 ------------------------------------- *)

\* C1 (anchor pinning).  At the end of every substep of Master::update, and
\* so when update returns, objects[0] is at the left anchor and objects[14]
\* at the right anchor, whatever the passes did to them.
C1_AnchorsPinned ==
    LastPass = "update_positions" =>
        /\ objects[1].position
              = <<F(WINDOW_WIDTH) \div 2 - F(210), F(WINDOW_HEIGHT) \div 2 + F(100)>>
        /\ objects[15].position
              = <<F(WINDOW_WIDTH) \div 2 + F(210), F(WINDOW_HEIGHT) \div 2 + F(100)>>

\* update has returned in a world with spawned particles, and the passes of
\* its last substep had moved an anchor off its place before the reset.
C1_Witness ==
    /\ pc = "loop"
    /\ LastPass = "update_positions"
    /\ disturbed
    /\ Len(objects) > 15
    /\ objects[1].position = LeftAnchor
    /\ objects[15].position = RightAnchor

(* ------------------------------ C2 ------------------------------------- *)

PassOrder ==
    <<"apply_gravity", "apply_constraint", "solve_collisions",
      "apply_chain_links", "reset_anchors", "update_positions">>

\* The passes of one call of update: four substeps of six passes.
ExpectedPasses == [k \in 1..24 |-> PassOrder[((k - 1) % 6) + 1]]

\* What pass p makes of the objects it finds.
PassResult(p, objs) ==
    CASE p = "apply_gravity"     -> ApplyGravity(objs)
      [] p = "apply_constraint"  -> ApplyConstraint(objs)
      [] p = "solve_collisions"  -> SolveCollisions(objs)
      [] p = "apply_chain_links" -> ApplyChainLinks(objs, chain_links)
      [] p = "reset_anchors"     -> ResetAnchors(objs)
      [] p = "update_positions"  -> UpdatePositions(objs, sub_delta)

\* C2 (substeps and pass order).  The passes a call of update has run are
\* at every moment the first so many of: four times gravity, boundary,
\* collisions, chain links, anchor reset, integration, each pass applied to
\* what the pass before it left; update returns after all 24, having
\* integrated with a quarter of its delta each time.
C2_PassOrder ==
    /\ Len(passes) <= 24
    /\ \A k \in 1..Len(passes) : passes[k] = ExpectedPasses[k]
    /\ passes # <<>> => objects = PassResult(LastPass, before)
    /\ frames > 0 => sub_delta * 4 = delta
    /\ substep = Len(passes) \div 6
    /\ (pc = "loop" /\ frames > 0) => Len(passes) = 24
    /\ pc # "loop" => (Len(passes) < 24 /\ pc = ExpectedPasses[Len(passes) + 1])

\* A second call of update has returned, after all its passes.
C2_Witness ==
    /\ pc = "loop"
    /\ frames = 2
    /\ passes = ExpectedPasses
    /\ substep = 4
    /\ objects # before

(* ------------------------------ C6 ------------------------------------- *)

\* Every index the passes use is one of a particle: those of the links and
\* the anchor indices 0 and 14.
IndexValid ==
    /\ Len(objects) >= 15
    /\ \A k \in 1..Len(chain_links) :
          /\ chain_links[k].a \in 0..(Len(objects) - 1)
          /\ chain_links[k].b \in 0..(Len(objects) - 1)
    /\ 0 < Len(objects)
    /\ 14 < Len(objects)

\* C6 (index validity).  From main's initial world on, the number of
\* particles is at least 15 and no step (a frame's mouse branch, a pass of
\* update) has decreased it, and every link endpoint and both anchor indices
\* are below it.
C6_IndexValid ==
    /\ IndexValid
    /\ Len(objects) >= Len(before)
    /\ pushed >= 0

\* Two particles were spawned and update has run on the 17.
C6_Witness ==
    /\ Len(objects) = 17
    /\ pc = "loop"
    /\ IndexValid

(* ------------------------------ C7 ------------------------------------- *)

\* The 14 links (i - 1, i, 30.0) for i in 1..=14.
LinksAsBuilt ==
    /\ Len(chain_links) = 14
    /\ \A i \in 1..14 :
          chain_links[i] = [a |-> i - 1, b |-> i, target_distance |-> F(30)]
    /\ \A i \in 1..Len(chain_links) : chain_links[i].a < 15 /\ chain_links[i].b < 15

\* The mouse branch of the frame just started left the objects alone or
\* appended one object, at rest and unaccelerated, and changed no other.
SpawnAppends ==
    passes = <<>> =>
        /\ Len(objects) \in {Len(before), Len(before) + 1}
        /\ \A k \in 1..Len(before) : objects[k] = before[k]
        /\ Len(objects) > Len(before) =>
              /\ objects[Len(objects)].last_position = objects[Len(objects)].position
              /\ objects[Len(objects)].acceleration = <<0, 0>>

\* C7 (links untouched).  A spawn appends exactly one particle, at rest and
\* unaccelerated, changes no existing particle and adds no link; no pass of
\* update changes the number of particles or a link: the links are always
\* the 14 links (i - 1, i, 30.0), none of which names a spawned particle.
C7_LinksUntouched ==
    /\ LinksAsBuilt
    /\ SpawnAppends
    /\ passes # <<>> => Len(objects) = Len(before)

\* A second particle has just been spawned, after update ran its passes,
\* the chain links among them, on a world with the first one.
C7_Witness ==
    /\ Len(objects) = 17
    /\ passes = <<>>
    /\ pushed = 1
    /\ Len(before) = 16
    /\ LinksAsBuilt

(* ------------------------------ C9 ------------------------------------- *)

\* An anchor reset has run since the world was built.
ResetDone ==
    \/ frames > 1
    \/ \E k \in 1..Len(passes) : passes[k] = "reset_anchors"

\* C9 as claimed: in any world of at least 15 particles every particle,
\* the two anchors included, keeps the radius (and colour) it was created
\* with.
C9_Original ==
    \A k \in 1..Len(objects) :
        /\ objects[k].radius = created[k].radius
        /\ objects[k].color = created[k].color

\* C9 (amended).  Every particle keeps the colour it was created with, and
\* every particle other than objects[0] and objects[14] its radius; the
\* anchor reset gives those two the radius 10.0, which is the radius they
\* were created with in the world main builds.
C9_Radius ==
    /\ Len(objects) = Len(created)
    /\ \A k \in 1..Len(objects) :
          /\ objects[k].color = created[k].color
          /\ k \notin {1, 15} => objects[k].radius = created[k].radius
          /\ k \in {1, 15} =>
                objects[k].radius = IF ResetDone THEN F(10) ELSE created[k].radius
          /\ (k \in {1, 15} /\ created[k].radius = F(10))
                => objects[k].radius = created[k].radius

\* update has returned in a world where an anchor was created with another
\* radius than 10.0 and a particle has been spawned.
C9_Witness ==
    /\ pc = "loop"
    /\ frames > 0
    /\ Len(objects) > 15
    /\ \E k \in {1, 15} : created[k].radius # F(10)

(* ------------------------------ C10 ------------------------------------ *)

\* C10 as claimed: a frame spawns at most one particle, and none while the
\* button is up, and between any two spawns at least 10 units of frame time
\* pass.
C10_Original ==
    /\ pushed \in {0, 1}
    /\ ~held => pushed = 0
    /\ last_gap # None => last_gap >= F(10)

\* C10 (amended).  A frame spawns at most one particle, and none while the
\* button is up; between two spawns at least 10 units of frame time pass if
\* the button was down in every frame between them.  (A frame with the
\* button up sets mouse_timer to 0, so the next frame with it down spawns.)
C10_Throttle ==
    /\ pushed \in {0, 1}
    /\ ~held => pushed = 0
    /\ (last_gap # None /\ last_gap_held) => last_gap >= F(10)
    /\ pushed = 1 => mouse_timer = F(10)

\* A second particle was spawned with the button down ever since the first.
C10_Witness ==
    /\ last_gap # None
    /\ last_gap_held
    /\ pushed = 1
    /\ Len(objects) = 17

====
